---- MODULE Spec2Model ----
(***************************************************************************)
(* Parameter-sweep engine of lsdyna_parametric: VariableField (value       *)
(* generation, config dict), the batch planner (estimate_batch_size,       *)
(* generate_batch), the case manifest (write_case_config_toml), the        *)
(* VariableFieldDialog and MainWindow.generate_clicked.                    *)
(*                                                                         *)
(* Numbers.  A float is modelled as an integer count of units of 1e-12,    *)
(* computed exactly.  On that scale the tolerance 1e-12 of the range loop  *)
(* is 1 unit and round(v, 10) rounds to a multiple of 100 units.  Binary   *)
(* floating-point drift of the repeated addition is not modelled.          *)
(*                                                                         *)
(* Python values.  None is <<>> and a present optional v is <<v>>.  A dict *)
(* is the sequence of its <<key, value>> pairs in insertion order.         *)
(***************************************************************************)
EXTENDS Integers, Sequences, FiniteSets, TLC

VARIABLES base_params, variables, op, arg, ret

\* write_case_config_toml: its two mapping arguments and the text it writes
VARIABLES template_params, variables_section, text

\* MainWindow and VariableFieldDialog: the open dialog and its last outcome,
\* the options of the window, the position and locals of generate_clicked,
\* the last message box and the output directory tree
VARIABLES dlg, dlg_result, output_dir, warn_spin,
          pc, batch, loop_i, created, canceled, message, fs

manifest_vars == <<template_params, variables_section, text>>

ui_vars == <<dlg, dlg_result, output_dir, warn_spin,
             pc, batch, loop_i, created, canceled, message, fs>>

vars == <<base_params, variables, op, arg, ret, manifest_vars, ui_vars>>

(***************************************************************************)
(* Numeric constants of the source, in units of 1e-12.                     *)
(***************************************************************************)
\* 1e-12, the tolerance added to max_v in the loop condition
EPS == 1
\* round(current, 10): the rounding grid 1e-10
ROUND_UNIT == 100
\* the literal 1_000_000 of the loop's break test, scaled down so that the
\* enumerated ranges reach it; every statement about the cap is made
\* relative to this name
MAX_VALUES == 3
\* longest discrete value list drawn by Init
MaxListLen == 2

(***************************************************************************)
(* Python helpers.                                                         *)
(***************************************************************************)
None == <<>>

Some(v) == <<v>>

\* dict.keys(), in insertion order
keys(d) == [i \in 1..Len(d) |-> d[i][1]]

\* d[k] for a key the dict holds
getitem(d, k) == LET i == CHOOSE j \in 1..Len(d) : d[j][1] = k IN d[i][2]

\* the key set of a dict
KeySet(d) == {d[i][1] : i \in 1..Len(d)}

\* mapping.get(name): the value, or None when the name is absent.  The
\* variables mapping is modelled as a function on the names it holds.
get(mapping, name) == IF name \in DOMAIN mapping THEN Some(mapping[name]) ELSE None

\* round(v, 10) on the 1e-12 grid: nearest multiple of ROUND_UNIT, ties to even
round10(v) ==
    LET q == v \div ROUND_UNIT
        r == v % ROUND_UNIT
    IN  IF 2 * r < ROUND_UNIT THEN q * ROUND_UNIT
        ELSE IF 2 * r > ROUND_UNIT THEN (q + 1) * ROUND_UNIT
        ELSE IF q % 2 = 0 THEN q * ROUND_UNIT ELSE (q + 1) * ROUND_UNIT

(***************************************************************************)
(* VariableField                                                           *)
(***************************************************************************)
\* the dataclass; its default step 1.0 is 10^12 units, beyond the enumerated
\* grid, so the inputs give fields that are never stepped a step of 100
VariableField(enabled, mode, min_value, max_value, step, values) ==
    [enabled |-> enabled, mode |-> mode, min_value |-> min_value,
     max_value |-> max_value, step |-> step, values |-> values]

\* the while loop of generate_values
RECURSIVE range_loop(_, _, _, _)
range_loop(out, current, max_v, step) ==
    IF current <= max_v + EPS
    THEN LET out1 == Append(out, round10(current))
         IN  IF Len(out1) > MAX_VALUES
             THEN out1
             ELSE range_loop(out1, current + step, max_v, step)
    ELSE out

\* generate_values without the step guard
generate_values_no_step_guard(self) ==
    IF ~self.enabled THEN <<>>
    ELSE IF self.mode = "discrete" THEN self.values
    ELSE IF self.min_value = None \/ self.max_value = None THEN <<>>
    ELSE range_loop(<<>>, self.min_value[1], self.max_value[1], self.step)

generate_values(self) ==
    IF ~self.enabled THEN <<>>
    ELSE IF self.mode = "discrete" THEN self.values
    ELSE IF self.min_value = None \/ self.max_value = None THEN <<>>
    ELSE IF self.step <= 0 THEN <<>>
    ELSE range_loop(<<>>, self.min_value[1], self.max_value[1], self.step)

\* to_config_dict writing both bounds even when absent
to_config_dict_always_bounds(self) ==
    LET cfg0 == << <<"enabled", self.enabled>>, <<"mode", self.mode>> >>
    IN  IF self.mode = "range"
        THEN cfg0 \o << <<"min_value", self.min_value>>,
                        <<"max_value", self.max_value>>,
                        <<"step", self.step>> >>
        ELSE Append(cfg0, <<"values", self.values>>)

to_config_dict(self) ==
    LET cfg0 == << <<"enabled", self.enabled>>, <<"mode", self.mode>> >>
    IN  IF self.mode = "range"
        THEN LET cfg1 == IF self.min_value # None
                         THEN Append(cfg0, <<"min_value", self.min_value[1]>>)
                         ELSE cfg0
                 cfg2 == IF self.max_value # None
                         THEN Append(cfg1, <<"max_value", self.max_value[1]>>)
                         ELSE cfg1
             IN  Append(cfg2, <<"step", self.step>>)
        ELSE Append(cfg0, <<"values", self.values>>)

(***************************************************************************)
(* Batch planner                                                           *)
(***************************************************************************)
\* a test that forgets the enabled flag
is_enabled_any(var) == var # None

\* the test `var and var.enabled` (a dataclass instance is always truthy)
is_enabled(var) == var # None /\ var[1].enabled

\* an estimate that multiplies by the count of every field it finds
RECURSIVE estimate_loop_any(_, _, _, _)
estimate_loop_any(names, i, vs, total) ==
    IF i > Len(names) THEN total
    ELSE LET var == get(vs, names[i])
         IN  estimate_loop_any(names, i + 1, vs,
                 IF var # None
                 THEN total * Len(generate_values(var[1]))
                 ELSE total)

RECURSIVE estimate_loop(_, _, _, _)
estimate_loop(names, i, vs, total) ==
    IF i > Len(names) THEN total
    ELSE LET var == get(vs, names[i])
         IN  estimate_loop(names, i + 1, vs,
                 IF is_enabled(var)
                 THEN total * Len(generate_values(var[1]))
                 ELSE total)

estimate_batch_size(bp, vs) == estimate_loop(keys(bp), 1, vs, 1)

\* a planner that falls back to the base value when an enabled field
\* generates nothing
value_lists_fallback(bp, vs) ==
    LET names == keys(bp)
    IN  [i \in 1..Len(names) |->
            LET var == get(vs, names[i])
            IN  IF is_enabled(var) /\ generate_values(var[1]) # <<>>
                THEN generate_values(var[1])
                ELSE <<getitem(bp, names[i])>>]

\* the first loop of generate_batch: one candidate list per base name
value_lists(bp, vs) ==
    LET names == keys(bp)
    IN  [i \in 1..Len(names) |->
            LET var == get(vs, names[i])
            IN  IF is_enabled(var)
                THEN generate_values(var[1])
                ELSE <<getitem(bp, names[i])>>]

\* [f(x) for x in xs for r in rest]: each x paired with every r, x outermost
RECURSIVE pair_all(_, _)
pair_all(xs, rest) ==
    IF xs = <<>> THEN <<>>
    ELSE [k \in 1..Len(rest) |-> <<Head(xs)>> \o rest[k]] \o pair_all(Tail(xs), rest)

\* a product whose first axis varies fastest
RECURSIVE product_first_fastest(_)
product_first_fastest(lists) ==
    IF lists = <<>> THEN << <<>> >>
    ELSE LET init == product_first_fastest(SubSeq(lists, 1, Len(lists) - 1))
             last == lists[Len(lists)]
             n == Len(init)
         IN  [k \in 1..(n * Len(last)) |->
                 Append(init[((k - 1) % n) + 1], last[((k - 1) \div n) + 1])]

\* itertools.product(*lists): tuples in odometer order, rightmost fastest
RECURSIVE product(_)
product(lists) ==
    IF lists = <<>> THEN << <<>> >>
    ELSE pair_all(Head(lists), product(Tail(lists)))

\* params that keep only the names after the first
zip_params_drop_first(names, combo) ==
    [a \in 1..(Len(names) - 1) |-> <<names[a + 1], combo[a + 1]>>]

\* {name: float(value) for name, value in zip(names, combo)}
zip_params(names, combo) == [a \in 1..Len(names) |-> <<names[a], combo[a]>>]

BatchItem(index, params) == [index |-> index, params |-> params]

\* enumerate(...) without start=1
generate_batch_from_zero(bp, vs) ==
    LET names == keys(bp)
        combos == product(value_lists(bp, vs))
    IN  [i \in 1..Len(combos) |-> BatchItem(i - 1, zip_params(names, combos[i]))]

generate_batch(bp, vs) ==
    LET names == keys(bp)
        combos == product(value_lists(bp, vs))
    IN  [i \in 1..Len(combos) |-> BatchItem(i, zip_params(names, combos[i]))]

(***************************************************************************)
(* Inputs                                                                  *)
(***************************************************************************)
RECURSIVE SeqsUpTo(_, _)
SeqsUpTo(S, n) ==
    IF n = 0 THEN {<<>>}
    ELSE LET shorter == SeqsUpTo(S, n - 1)
         IN  shorter \cup {Append(s, v) : s \in {t \in shorter : Len(t) = n - 1}, v \in S}

MinValues == {None, Some(0), Some(1), Some(300)}

MaxValues == {None, Some(0), Some(100), Some(200), Some(1000)}

Steps == {-100, 0, 1, 100}

DiscreteLists == SeqsUpTo({0, 100}, MaxListLen)

\* range-mode fields, enabled or not, valid or not
RangeFields ==
    {VariableField(e, "range", mn, mx, s, <<>>) :
        e \in BOOLEAN, mn \in MinValues, mx \in MaxValues, s \in Steps}

\* discrete-mode fields as the editor leaves them (bounds cleared)
DiscreteFields ==
    {VariableField(e, "discrete", None, None, 100, v) :
        e \in BOOLEAN, v \in DiscreteLists}

\* fields whose other mode's attributes are still stored
StaleFields ==
    {VariableField(e, "discrete", Some(0), Some(100), 100, <<0, 100>>) : e \in BOOLEAN}
    \cup {VariableField(e, "range", Some(0), Some(100), 100, <<0, 100>>) : e \in BOOLEAN}

FieldsX == RangeFields \cup DiscreteFields \cup StaleFields

FieldsY ==
    { VariableField(FALSE, "range", None, None, 100, <<>>),
      VariableField(TRUE, "range", Some(0), Some(100), 100, <<>>),
      VariableField(TRUE, "range", Some(0), None, 100, <<>>),
      VariableField(TRUE, "discrete", None, None, 100, <<100, 0>>),
      VariableField(TRUE, "discrete", None, None, 100, <<300, 300, 200>>) }

FieldsZ ==
    { VariableField(TRUE, "discrete", None, None, 100, <<0, 100>>),
      VariableField(TRUE, "range", None, None, 100, <<>>) }

BaseParamsSet ==
    { <<>>,
      << <<"x", 700>> >>,
      << <<"y", 900>> >>,
      << <<"x", 700>>, <<"y", 900>> >>,
      << <<"y", 900>>, <<"x", 700>> >>,
      << <<"x", 700>>, <<"z", 800>>, <<"y", 900>> >> }

\* a mapping holding x, y, z or any subset of them
VariablesSet ==
    UNION { { [n \in D |-> IF n = "x" THEN fx ELSE IF n = "y" THEN fy ELSE fz] :
                fx \in (IF "x" \in D THEN FieldsX ELSE {None}),
                fy \in (IF "y" \in D THEN FieldsY ELSE {None}),
                fz \in (IF "z" \in D THEN FieldsZ ELSE {None}) } :
            D \in SUBSET {"x", "y", "z"} }

(***************************************************************************)
(* State machine: a caller holding base_params and variables calls the     *)
(* operations in any order; op, arg and ret record the last call.          *)
(***************************************************************************)
\* nothing written yet
NoManifest ==
    /\ template_params = <<>>
    /\ variables_section = <<>>
    /\ text = None

\* the directory tree before anything exists in it
EmptyTree == [out_root |-> FALSE, cases |-> <<>>, backups |-> {}]

\* a window with no dialog open and no generation under way
WindowIdle ==
    /\ dlg = None
    /\ dlg_result = None
    /\ pc = "idle"
    /\ batch = <<>>
    /\ loop_i = 0
    /\ created = <<>>
    /\ canceled = FALSE
    /\ message = None

Init ==
    /\ base_params \in BaseParamsSet
    /\ variables \in VariablesSet
    /\ op = "none"
    /\ arg = None
    /\ ret = None
    /\ NoManifest
    /\ WindowIdle
    /\ output_dir = None
    /\ warn_spin = 50
    /\ fs = EmptyTree

EstimateBatchSize ==
    /\ op' = "estimate_batch_size"
    /\ arg' = None
    /\ ret' = estimate_batch_size(base_params, variables)
    /\ UNCHANGED <<base_params, variables, manifest_vars, ui_vars>>

GenerateBatch ==
    /\ op' = "generate_batch"
    /\ arg' = None
    /\ ret' = generate_batch(base_params, variables)
    /\ UNCHANGED <<base_params, variables, manifest_vars, ui_vars>>

GenerateValues(name) ==
    /\ name \in DOMAIN variables
    /\ op' = "generate_values"
    /\ arg' = Some(name)
    /\ ret' = generate_values(variables[name])
    /\ UNCHANGED <<base_params, variables, manifest_vars, ui_vars>>

ToConfigDict(name) ==
    /\ name \in DOMAIN variables
    /\ op' = "to_config_dict"
    /\ arg' = Some(name)
    /\ ret' = to_config_dict(variables[name])
    /\ UNCHANGED <<base_params, variables, manifest_vars, ui_vars>>

Next ==
    \/ EstimateBatchSize
    \/ GenerateBatch
    \/ \E name \in {"x", "y", "z"} : GenerateValues(name)
    \/ \E name \in {"x", "y", "z"} : ToConfigDict(name)

Spec == Init /\ [][Next]_vars

(***************************************************************************)
(* Vocabulary of the properties                                            *)
(***************************************************************************)
Names == keys(base_params)

\* the candidate values of a base parameter: the field's generated values
\* when an enabled field exists for it, else its single fixed base value
Candidates(name) ==
    IF name \in DOMAIN variables /\ variables[name].enabled
    THEN generate_values(variables[name])
    ELSE <<getitem(base_params, name)>>

\* a dict as a function from its keys
AsMap(d) == [k \in KeySet(d) |-> getitem(d, k)]

NoDuplicates(s) == \A p, q \in 1..Len(s) : s[p] = s[q] => p = q

AllDisabled == \A n \in DOMAIN variables : ~variables[n].enabled

RECURSIVE ProductOfLengths(_, _)
\* the product of the candidate counts of the names at positions a..Len(Names)
ProductOfLengths(a, n) ==
    IF a > n THEN 1 ELSE Len(Candidates(Names[a])) * ProductOfLengths(a + 1, n)

\* 1-based position, in the candidate sequence of the a-th name, that a
\* rightmost-fastest enumeration gives to item k
Position(k, a) ==
    (((k - 1) \div ProductOfLengths(a + 1, Len(Names))) % Len(Candidates(Names[a]))) + 1

\* the first name position at which two items hold different values (0: none)
FirstDifference(p1, p2) ==
    LET D == {a \in 1..Len(Names) : getitem(p1, Names[a]) # getitem(p2, Names[a])}
    IN  IF D = {} THEN 0 ELSE CHOOSE a \in D : \A b \in D : a <= b

\* value v comes earlier than value w in sequence s
ComesEarlier(s, v, w) == \E p, q \in 1..Len(s) : p < q /\ s[p] = v /\ s[q] = w

\* the value-based ordering of the items of a batch
ValueOrdered(items) ==
    \A i, j \in 1..Len(items) :
        i < j =>
            LET a == FirstDifference(items[i].params, items[j].params)
            IN  a # 0 =>
                    ComesEarlier(Candidates(Names[a]),
                                 getitem(items[i].params, Names[a]),
                                 getitem(items[j].params, Names[a]))

(***************************************************************************)
(* C1: the number of items generate_batch returns equals                   *)
(* estimate_batch_size for the same base_params and variables, for every   *)
(* input (disabled fields, empty generators, names absent from            *)
(* base_params included).                                                  *)
(***************************************************************************)
C1_LenEqualsEstimate ==
    op = "generate_batch" => Len(ret) = estimate_batch_size(base_params, variables)

\* a two-axis batch, a third field being absent from base_params
C1_Witness ==
    /\ op = "generate_batch"
    /\ Len(ret) = 6
    /\ "z" \in DOMAIN variables /\ "z" \notin KeySet(base_params)

(***************************************************************************)
(* C2 as stated: for two items i < j, at the first name (in base_params    *)
(* order) where their values differ, item i's value comes earlier in that  *)
(* name's candidate sequence than item j's.                                *)
(***************************************************************************)
C2_Original == op = "generate_batch" => ValueOrdered(ret)

(***************************************************************************)
(* C2 amended: generate_batch enumerates the cartesian product by          *)
(* position, axes in base_params order, last name fastest: item k holds    *)
(* for the a-th name the candidate at position                             *)
(* ((k-1) div (product of the later names' candidate counts)) mod (own     *)
(* count); the value-based ordering holds whenever no candidate sequence   *)
(* repeats a value.                                                        *)
(***************************************************************************)
C2_ProductOrder ==
    op = "generate_batch" =>
        /\ \A k \in 1..Len(ret) : \A a \in 1..Len(Names) :
               getitem(ret[k].params, Names[a]) = Candidates(Names[a])[Position(k, a)]
        /\ (\A a \in 1..Len(Names) : NoDuplicates(Candidates(Names[a])))
               => ValueOrdered(ret)

\* the scenario of the claim on the model's scale: x swept over 0, 100, 200
\* before the fixed y
C2_Witness ==
    /\ op = "generate_batch"
    /\ base_params = << <<"x", 700>>, <<"y", 900>> >>
    /\ Len(ret) = 3
    /\ \A k \in 1..3 : ret[k].params = << <<"x", (k - 1) * 100>>, <<"y", 900>> >>

(***************************************************************************)
(* C3: the index fields of the returned items are 1, 2, ..., N in list     *)
(* order, N being the batch size.                                          *)
(***************************************************************************)
C3_IndicesContiguous ==
    op = "generate_batch" =>
        /\ \A i \in 1..Len(ret) : ret[i].index = i
        /\ {ret[i].index : i \in 1..Len(ret)} = 1..estimate_batch_size(base_params, variables)

C3_Witness == op = "generate_batch" /\ Len(ret) >= 4 /\ ret[4].index = 4

(***************************************************************************)
(* C4: every returned item's params has exactly the keys of base_params,   *)
(* one entry each.                                                         *)
(***************************************************************************)
C4_ParamsKeys ==
    op = "generate_batch" =>
        \A i \in 1..Len(ret) :
            /\ KeySet(ret[i].params) = KeySet(base_params)
            /\ Len(ret[i].params) = Len(base_params)

\* a variables-only name and a fixed base parameter in the same batch
C4_Witness ==
    /\ op = "generate_batch"
    /\ Len(ret) >= 2
    /\ "z" \in DOMAIN variables /\ "z" \notin KeySet(base_params)
    /\ "y" \in KeySet(base_params) /\ "y" \notin DOMAIN variables

(***************************************************************************)
(* C5: with every field disabled (or no field at all) generate_batch       *)
(* returns exactly one item, index 1, params equal to base_params, and     *)
(* estimate_batch_size returns 1.                                          *)
(***************************************************************************)
C5_AllDisabled ==
    AllDisabled =>
        /\ op = "generate_batch" =>
               /\ Len(ret) = 1
               /\ ret[1].index = 1
               /\ AsMap(ret[1].params) = AsMap(base_params)
        /\ op = "estimate_batch_size" => ret = 1

\* a disabled field that still stores discrete values
C5_Witness ==
    /\ op = "generate_batch"
    /\ AllDisabled
    /\ Len(base_params) = 2
    /\ "x" \in DOMAIN variables /\ variables["x"].mode = "discrete"
    /\ Len(variables["x"].values) = 2

(***************************************************************************)
(* Vocabulary of the field properties                                      *)
(***************************************************************************)
\* the field the last generate_values / to_config_dict call was made on
Self == variables[arg[1]]

HasBounds(f) == f.min_value # None /\ f.max_value # None

Min2(a, b) == IF a <= b THEN a ELSE b

\* floor((max - min)/step + 1e-12/step) + 1, for step > 0
TermCount(f) == ((f.max_value[1] - f.min_value[1] + EPS) \div f.step) + 1

\* an enabled range field with min <= max and step > 0
ValidRange(f) ==
    /\ f.enabled /\ f.mode = "range" /\ HasBounds(f)
    /\ f.min_value[1] <= f.max_value[1]
    /\ f.step > 0

\* the invalid states C8 lists
InvalidAsClaimed(f) ==
    /\ f.enabled /\ f.mode = "range"
    /\ \/ f.min_value = None
       \/ f.max_value = None
       \/ f.step <= 0
       \/ (HasBounds(f) /\ f.min_value[1] > f.max_value[1])

\* the same with bounds inverted by more than the tolerance
InvalidBeyondTolerance(f) ==
    /\ f.enabled /\ f.mode = "range"
    /\ \/ f.min_value = None
       \/ f.max_value = None
       \/ f.step <= 0
       \/ (HasBounds(f) /\ f.min_value[1] > f.max_value[1] + EPS)

\* variables without its disabled fields
EnabledOnly ==
    [n \in {m \in DOMAIN variables : variables[m].enabled} |-> variables[n]]

(***************************************************************************)
(* C6: an enabled range field with min <= max and step > 0 generates       *)
(* floor((max-min)/step + 1e-12/step) + 1 values, at most the cap, and     *)
(* they are min, min+step, min+2*step, ... in order.  The values are read  *)
(* up to the rounding to 10 decimals that the loop applies, so that only   *)
(* the count can refute the statement.                                     *)
(***************************************************************************)
C6_CountAndValues ==
    (op = "generate_values" /\ ValidRange(Self)) =>
        /\ Len(ret) = Min2(TermCount(Self), MAX_VALUES)
        /\ \A k \in 1..Len(ret) :
               ret[k] = round10(Self.min_value[1] + (k - 1) * Self.step)
        /\ \A k, l \in 1..Len(ret) : k < l => ret[k] <= ret[l]

(***************************************************************************)
(* C7 as stated: generate_values never returns more values than the cap;   *)
(* a range with more terms than the cap yields exactly the cap.            *)
(***************************************************************************)
C7_CapRespected ==
    (op = "generate_values" /\ ValidRange(Self)) =>
        /\ Len(ret) <= MAX_VALUES
        /\ TermCount(Self) > MAX_VALUES => Len(ret) = MAX_VALUES

(***************************************************************************)
(* C8 as stated: an enabled range field with min absent, max absent,       *)
(* step <= 0 or min > max generates the empty sequence, and                *)
(* estimate_batch_size is 0 when its name is in base_params.               *)
(***************************************************************************)
C8_Original ==
    /\ (op = "generate_values" /\ InvalidAsClaimed(Self)) => ret = <<>>
    /\ (op = "estimate_batch_size"
        /\ \E n \in KeySet(base_params) \cap DOMAIN variables :
               InvalidAsClaimed(variables[n])) => ret = 0

(***************************************************************************)
(* C8 amended: an enabled range field with min absent, max absent,         *)
(* step <= 0 or min > max + 1e-12 generates the empty sequence, and        *)
(* estimate_batch_size is 0 when its name is in base_params.               *)
(***************************************************************************)
C8_InvalidRangeEmpty ==
    /\ (op = "generate_values" /\ InvalidBeyondTolerance(Self)) => ret = <<>>
    /\ (op = "estimate_batch_size"
        /\ \E n \in KeySet(base_params) \cap DOMAIN variables :
               InvalidBeyondTolerance(variables[n])) => ret = 0

\* bounds inverted beyond the tolerance next to a field that generates values
C8_Witness ==
    /\ op = "estimate_batch_size"
    /\ ret = 0
    /\ {"x", "y"} \subseteq KeySet(base_params) \cap DOMAIN variables
    /\ HasBounds(variables["x"]) /\ variables["x"].enabled
    /\ variables["x"].step > 0
    /\ variables["x"].min_value[1] > variables["x"].max_value[1] + EPS
    /\ Len(generate_values(variables["y"])) >= 2

(***************************************************************************)
(* C9: generate_values on a disabled field is empty whatever its mode and  *)
(* stored bounds or values; a disabled field counts as a factor 1 in       *)
(* estimate_batch_size and leaves the fixed base value in every item of    *)
(* generate_batch.                                                         *)
(***************************************************************************)
C9_DisabledField ==
    /\ (op = "generate_values" /\ ~Self.enabled) => ret = <<>>
    /\ op = "estimate_batch_size" =>
           ret = estimate_batch_size(base_params, EnabledOnly)
    /\ op = "generate_batch" =>
           /\ ret = generate_batch(base_params, EnabledOnly)
           /\ \A i \in 1..Len(ret) :
                  \A n \in KeySet(base_params) \cap DOMAIN variables :
                      ~variables[n].enabled =>
                          getitem(ret[i].params, n) = getitem(base_params, n)

\* a disabled field that stores usable bounds and values, next to a sweep
C9_Witness ==
    /\ op = "generate_batch"
    /\ {"x", "y"} \subseteq KeySet(base_params) \cap DOMAIN variables
    /\ ~variables["x"].enabled
    /\ HasBounds(variables["x"]) /\ variables["x"].values # <<>>
    /\ Len(ret) >= 2

(***************************************************************************)
(* C10 as stated: to_config_dict always holds enabled and mode; for a      *)
(* range field min_value, max_value and step and not values; for a         *)
(* discrete field values and none of min_value, max_value, step; and the   *)
(* field is left unchanged.                                                *)
(***************************************************************************)
C10_Original ==
    [][op' = "to_config_dict" =>
          LET f == variables[arg'[1]]
              K == KeySet(ret')
          IN  /\ {"enabled", "mode"} \subseteq K
              /\ f.mode = "range" =>
                     /\ {"min_value", "max_value", "step"} \subseteq K
                     /\ "values" \notin K
              /\ f.mode = "discrete" =>
                     /\ "values" \in K
                     /\ K \cap {"min_value", "max_value", "step"} = {}
              /\ variables' = variables]_vars

(***************************************************************************)
(* C10 amended: to_config_dict always holds enabled and mode; for a range  *)
(* field step, min_value exactly when min_value is present, max_value      *)
(* exactly when max_value is present, and not values; for a discrete       *)
(* field values and none of min_value, max_value, step; and the field is   *)
(* left unchanged.                                                         *)
(***************************************************************************)
C10_ConfigDict ==
    [][op' = "to_config_dict" =>
          LET f == variables[arg'[1]]
              K == KeySet(ret')
          IN  /\ {"enabled", "mode"} \subseteq K
              /\ f.mode = "range" =>
                     /\ "step" \in K
                     /\ "min_value" \in K <=> f.min_value # None
                     /\ "max_value" \in K <=> f.max_value # None
                     /\ "values" \notin K
              /\ f.mode = "discrete" =>
                     /\ "values" \in K
                     /\ K \cap {"min_value", "max_value", "step"} = {}
              /\ Len(ret') = Cardinality(K)
              /\ variables' = variables]_vars

\* a range field with one bound absent
C10_Witness ==
    /\ op = "to_config_dict"
    /\ Self.mode = "range"
    /\ Self.min_value # None /\ Self.max_value = None
    /\ KeySet(ret) = {"enabled", "mode", "min_value", "step"}

(***************************************************************************)
(* Case manifest (io_utils.write_case_config_toml)                         *)
(*                                                                         *)
(* A Python value handed to the formatter is [type, v].  The text is the   *)
(* sequence of its lines: a section header, a `key = value` line or a      *)
(* blank line.                                                             *)
(***************************************************************************)
\* longest template_params mapping drawn for the manifest
MaxParams == 2
\* most [variables.<name>] sub-sections drawn for the manifest
MaxSections == 3

PyValue(type, v) == [type |-> type, v |-> v]

\* the Python type to_config_dict gives each entry: bool(self.enabled),
\* self.mode, float(...) for the bounds and the step, list(self.values)
py_entry(key, v) ==
    PyValue(CASE key = "enabled" -> "bool"
              [] key = "mode" -> "str"
              [] key = "values" -> "list"
              [] OTHER -> "float", v)

\* a to_config_dict result as the mapping of Python values it is
py_cfg(cfg) == [j \in 1..Len(cfg) |-> <<cfg[j][1], py_entry(cfg[j][1], cfg[j][2])>>]

\* the code points of a parameter name
ord(name) ==
    CASE name = "Z" -> <<90>>
      [] name = "x" -> <<120>>
      [] name = "xy" -> <<120, 121>>
      [] name = "y" -> <<121>>
      [] name = "z" -> <<122>>

\* a < b on str: the first differing code point decides, a proper prefix
\* is smaller
RECURSIVE seq_lt(_, _)
seq_lt(a, b) ==
    IF b = <<>> THEN FALSE
    ELSE IF a = <<>> THEN TRUE
    ELSE IF a[1] # b[1] THEN a[1] < b[1]
    ELSE seq_lt(Tail(a), Tail(b))

str_lt(a, b) == seq_lt(ord(a), ord(b))

\* one insertion of a stable sort of (key, value) items; the keys of a dict
\* are unique, so the tuple comparison is decided by the key
RECURSIVE insert_sorted(_, _)
insert_sorted(item, done) ==
    IF done = <<>> THEN <<item>>
    ELSE IF str_lt(item[1], Head(done)[1]) THEN <<item>> \o done
    ELSE <<Head(done)>> \o insert_sorted(item, Tail(done))

\* items taken in insertion order, as a loop over d.items() without sorted()
sorted_insertion_order(items) == items

\* sorted(d.items())
RECURSIVE sorted(_)
sorted(items) ==
    IF items = <<>> THEN <<>>
    ELSE insert_sorted(items[Len(items)], sorted(SubSeq(items, 1, Len(items) - 1)))

\* _format_toml_value: json.dumps for a str, true/false for a bool,
\* str(value) for anything else
format_toml_value(value) ==
    IF value.type = "str" THEN <<"json.dumps", value.v>>
    ELSE IF value.type = "bool" THEN <<"literal", IF value.v THEN "true" ELSE "false">>
    ELSE <<"str", value.v>>

SectionLine(name) == [tag |-> "section", name |-> name]

KeyValueLine(key, value) == [tag |-> "kv", key |-> key, value |-> format_toml_value(value)]

BlankLine == [tag |-> "blank"]

\* "\n".join(lines).rstrip() + "\n": the trailing blank lines go
RECURSIVE rstrip(_)
rstrip(lines) ==
    IF lines # <<>> /\ lines[Len(lines)].tag = "blank"
    THEN rstrip(SubSeq(lines, 1, Len(lines) - 1))
    ELSE lines

\* the lines of one [variables.<name>] sub-section
sub_section(name, cfg) ==
    <<SectionLine(<<"variables", name>>)>>
    \o [j \in 1..Len(cfg) |-> KeyValueLine(cfg[j][1], cfg[j][2])]
    \o <<BlankLine>>

RECURSIVE sub_sections(_)
sub_sections(items) ==
    IF items = <<>> THEN <<>>
    ELSE sub_section(Head(items)[1], Head(items)[2]) \o sub_sections(Tail(items))

write_case_config_toml(tp, vs, template_file) ==
    LET params == sorted(tp)
        lines ==
            << SectionLine(<<"meta">>),
               KeyValueLine("template_file", PyValue("str", template_file)),
               BlankLine,
               SectionLine(<<"template_params">>) >>
            \o [j \in 1..Len(params) |->
                   KeyValueLine(params[j][1], PyValue("float", params[j][2]))]
            \o << BlankLine, SectionLine(<<"variables">>), BlankLine >>
            \o sub_sections(sorted(vs))
    IN  rstrip(lines)

(***************************************************************************)
(* Manifest inputs                                                         *)
(***************************************************************************)
ManifestNames == {"Z", "x", "xy", "y"}

TemplateFile == "main.k"

\* the resolved value of each parameter
ManifestValue(name) ==
    CASE name = "Z" -> 0 [] name = "x" -> 100 [] name = "xy" -> 200 [] name = "y" -> 900

\* the field tracked for each parameter
ManifestField(name) ==
    CASE name = "Z" -> VariableField(FALSE, "discrete", None, None, 100, <<0>>)
      [] name = "x" -> VariableField(TRUE, "range", Some(0), Some(200), 100, <<>>)
      [] name = "xy" -> VariableField(FALSE, "range", None, None, 100, <<>>)
      [] name = "y" -> VariableField(TRUE, "discrete", None, None, 100, <<100, 0>>)

Reverse(q) == [j \in 1..Len(q) |-> q[Len(q) + 1 - j]]

HasNoRepeat(q) == \A a, b \in 1..Len(q) : q[a] = q[b] => a = b

TemplateParamsSet ==
    {[j \in 1..Len(q) |-> <<q[j], ManifestValue(q[j])>>] :
        q \in {t \in SeqsUpTo(ManifestNames, MaxParams) : HasNoRepeat(t)}}

\* the config mappings as to_config_dict builds them, or in another key order
VariablesSectionSet ==
    {[j \in 1..Len(q) |->
         <<q[j], IF r THEN Reverse(py_cfg(to_config_dict(ManifestField(q[j]))))
                      ELSE py_cfg(to_config_dict(ManifestField(q[j])))>>] :
        q \in {t \in SeqsUpTo(ManifestNames, MaxSections) : HasNoRepeat(t)},
        r \in BOOLEAN}

InitManifest ==
    /\ base_params = <<>>
    /\ variables = <<>>
    /\ op = "none"
    /\ arg = None
    /\ ret = None
    /\ template_params \in TemplateParamsSet
    /\ variables_section \in VariablesSectionSet
    /\ text = None
    /\ WindowIdle
    /\ output_dir = None
    /\ warn_spin = 50
    /\ fs = EmptyTree

WriteCaseConfigToml ==
    /\ text = None
    /\ text' = Some(write_case_config_toml(template_params, variables_section, TemplateFile))
    /\ UNCHANGED <<base_params, variables, op, arg, ret,
                   template_params, variables_section, ui_vars>>

NextManifest == WriteCaseConfigToml

SpecManifest == InitManifest /\ [][NextManifest]_vars

(***************************************************************************)
(* Vocabulary of the manifest property                                     *)
(***************************************************************************)
IsSection(line) == line.tag = "section"

IsKeyValue(line) == line.tag = "kv"

\* the section names of a text, in order
SectionNames(t) ==
    LET hs == SelectSeq(t, IsSection) IN [j \in 1..Len(hs) |-> hs[j].name]

\* the position of the header of the section called name
SectionStart(t, name) == CHOOSE j \in 1..Len(t) : IsSection(t[j]) /\ t[j].name = name

\* the key-value lines of the section called name, in order
SectionBody(t, name) ==
    LET start == SectionStart(t, name)
        later == {j \in (start + 1)..Len(t) : IsSection(t[j])}
        stop == IF later = {} THEN Len(t) + 1
                ELSE CHOOSE j \in later : \A k \in later : j <= k
    IN  SelectSeq(SubSeq(t, start + 1, stop - 1), IsKeyValue)

LineKeys(body) == [j \in 1..Len(body) |-> body[j].key]

\* lexicographic order of two names by code point
LexLess(a, b) ==
    LET ca == ord(a)
        cb == ord(b)
    IN  \E k \in 1..Len(cb) :
            /\ \A m \in 1..(k - 1) : m <= Len(ca) /\ ca[m] = cb[m]
            /\ (k > Len(ca) \/ (k <= Len(ca) /\ ca[k] < cb[k]))

LexSorted(q) == \A a, b \in 1..Len(q) : a < b => LexLess(q[a], q[b])

SeqRange(q) == {q[j] : j \in 1..Len(q)}

(***************************************************************************)
(* C11: the manifest has its sections in the order [meta],                 *)
(* [template_params], [variables], then one [variables.<name>] per tracked *)
(* parameter; the template_params keys and the sub-sections are in         *)
(* lexicographic order; inside a sub-section the keys keep the order of    *)
(* the supplied config mapping; the text does not depend on the insertion  *)
(* order of the two input mappings.                                        *)
(***************************************************************************)
C11_ManifestOrder ==
    text # None =>
        LET t == text[1]
            hs == SectionNames(t)
            subs == [j \in 1..(Len(hs) - 3) |-> hs[j + 3]]
            subnames == [j \in 1..Len(subs) |-> subs[j][2]]
            pkeys == LineKeys(SectionBody(t, <<"template_params">>))
        IN  /\ Len(hs) = 3 + Len(variables_section)
            /\ hs[1] = <<"meta">> /\ hs[2] = <<"template_params">> /\ hs[3] = <<"variables">>
            /\ \A j \in 1..Len(subs) : Len(subs[j]) = 2 /\ subs[j][1] = "variables"
            /\ SeqRange(subnames) = KeySet(variables_section)
            /\ LexSorted(subnames)
            /\ SeqRange(pkeys) = KeySet(template_params)
            /\ Len(pkeys) = Len(template_params)
            /\ LexSorted(pkeys)
            /\ \A n \in KeySet(variables_section) :
                   LineKeys(SectionBody(t, <<"variables", n>>))
                       = keys(getitem(variables_section, n))
            /\ t = write_case_config_toml(Reverse(template_params),
                                          Reverse(variables_section), TemplateFile)

\* both mappings inserted out of order, with a config mapping whose keys are
\* not in to_config_dict's order
C11_Witness ==
    /\ text # None
    /\ keys(template_params) = <<"xy", "Z">>
    /\ keys(variables_section) = <<"y", "xy", "x">>
    /\ keys(getitem(variables_section, "x")) = <<"step", "max_value", "min_value", "mode", "enabled">>
    /\ SectionNames(text[1]) = << <<"meta">>, <<"template_params">>, <<"variables">>,
                                  <<"variables", "x">>, <<"variables", "xy">>,
                                  <<"variables", "y">> >>

(***************************************************************************)
(* VariableFieldDialog                                                     *)
(*                                                                         *)
(* The dialog is modal.  The state of its widgets when OK is pressed is    *)
(* whatever the user left in them, so it is an input of the accept step;   *)
(* load_values only presets widgets that the user can then set freely.     *)
(***************************************************************************)
\* the count above which accept asks for confirmation
LARGE_COUNT == 100

\* str(val) of a list item and float(item.text()) reading it back
str_of_float(v) == <<"text", v>>

float_of_text(t) == t[2]

Widgets(enabled_cb, range_radio, min_spin, max_spin, step_spin, values_list) ==
    [enabled_cb |-> enabled_cb, range_radio |-> range_radio,
     min_spin |-> min_spin, max_spin |-> max_spin, step_spin |-> step_spin,
     values_list |-> values_list]

Accepted(variable, why) == [variable |-> variable, result |-> "accepted", why |-> why]

\* a validation return: the warning (or the declined question) and no assignment
Rejected(variable, why) == [variable |-> variable, result |-> "rejected", why |-> why]

\* accept without the comparison of the bounds
accept_no_bounds_check(variable, w, reply) ==
    IF ~w.enabled_cb THEN Accepted([variable EXCEPT !.enabled = FALSE], "unchecked")
    ELSE IF w.range_radio
    THEN IF w.step_spin <= 0 THEN Rejected(variable, "step")
         ELSE IF ((w.max_spin - w.min_spin) \div w.step_spin) + 1 > LARGE_COUNT
                 /\ reply = "No"
         THEN Rejected(variable, "declined")
         ELSE Accepted([variable EXCEPT !.mode = "range",
                                        !.min_value = Some(w.min_spin),
                                        !.max_value = Some(w.max_spin),
                                        !.step = w.step_spin,
                                        !.values = <<>>,
                                        !.enabled = TRUE], "range")
    ELSE LET values == [j \in 1..Len(w.values_list) |-> float_of_text(w.values_list[j])]
         IN  IF Len(values) < 2 THEN Rejected(variable, "too few")
             ELSE IF Cardinality({values[j] : j \in 1..Len(values)}) # Len(values)
             THEN Rejected(variable, "duplicates")
             ELSE Accepted([variable EXCEPT !.mode = "discrete",
                                            !.values = values,
                                            !.min_value = None,
                                            !.max_value = None,
                                            !.enabled = TRUE], "discrete")

\* accept that stores the mode before it validates
accept_mode_first(variable, w, reply) ==
    IF ~w.enabled_cb THEN Accepted([variable EXCEPT !.enabled = FALSE], "unchecked")
    ELSE IF w.range_radio
    THEN LET v0 == [variable EXCEPT !.mode = "range"]
         IN  IF w.min_spin >= w.max_spin THEN Rejected(v0, "min >= max")
             ELSE IF w.step_spin <= 0 THEN Rejected(v0, "step")
             ELSE IF ((w.max_spin - w.min_spin) \div w.step_spin) + 1 > LARGE_COUNT
                     /\ reply = "No"
             THEN Rejected(v0, "declined")
             ELSE Accepted([v0 EXCEPT !.min_value = Some(w.min_spin),
                                      !.max_value = Some(w.max_spin),
                                      !.step = w.step_spin,
                                      !.values = <<>>,
                                      !.enabled = TRUE], "range")
    ELSE LET values == [j \in 1..Len(w.values_list) |-> float_of_text(w.values_list[j])]
             v0 == [variable EXCEPT !.mode = "discrete"]
         IN  IF Len(values) < 2 THEN Rejected(v0, "too few")
             ELSE IF Cardinality({values[j] : j \in 1..Len(values)}) # Len(values)
             THEN Rejected(v0, "duplicates")
             ELSE Accepted([v0 EXCEPT !.values = values,
                                      !.min_value = None,
                                      !.max_value = None,
                                      !.enabled = TRUE], "discrete")

\* VariableFieldDialog.accept on the edited field: the field afterwards and
\* whether the dialog closed.  reply is the answer to the large-count
\* question, asked only when the count exceeds LARGE_COUNT.
accept(variable, w, reply) ==
    IF ~w.enabled_cb THEN Accepted([variable EXCEPT !.enabled = FALSE], "unchecked")
    ELSE IF w.range_radio
    THEN IF w.min_spin >= w.max_spin THEN Rejected(variable, "min >= max")
         ELSE IF w.step_spin <= 0 THEN Rejected(variable, "step")
         ELSE IF ((w.max_spin - w.min_spin) \div w.step_spin) + 1 > LARGE_COUNT
                 /\ reply = "No"
         THEN Rejected(variable, "declined")
         ELSE Accepted([variable EXCEPT !.mode = "range",
                                        !.min_value = Some(w.min_spin),
                                        !.max_value = Some(w.max_spin),
                                        !.step = w.step_spin,
                                        !.values = <<>>,
                                        !.enabled = TRUE], "range")
    ELSE LET values == [j \in 1..Len(w.values_list) |-> float_of_text(w.values_list[j])]
         IN  IF Len(values) < 2 THEN Rejected(variable, "too few")
             ELSE IF Cardinality({values[j] : j \in 1..Len(values)}) # Len(values)
             THEN Rejected(variable, "duplicates")
             ELSE Accepted([variable EXCEPT !.mode = "discrete",
                                            !.values = values,
                                            !.min_value = None,
                                            !.max_value = None,
                                            !.enabled = TRUE], "discrete")

(***************************************************************************)
(* What the user can leave in the widgets.  min_spin and max_spin have 8   *)
(* decimals (multiples of 10000 units), step_spin has 12 decimals and the  *)
(* range 1e-12..1e12, so a step is at least 1 unit.                        *)
(***************************************************************************)
MinSpinValues == {0, 10000}

MaxSpinValues == {0, 10000}

StepSpinValues == {1, 10000}

ValuesLists ==
    {[j \in 1..Len(q) |-> str_of_float(q[j])] : q \in SeqsUpTo({0, 100}, MaxListLen)}

WidgetStates ==
    {Widgets(TRUE, TRUE, mn, mx, st, <<>>) :
        mn \in MinSpinValues, mx \in MaxSpinValues, st \in StepSpinValues}
    \cup {Widgets(TRUE, FALSE, 0, 10000, 10000, vl) : vl \in ValuesLists}
    \cup {Widgets(FALSE, r, 0, 0, 1, <<>>) : r \in BOOLEAN}

Replies == {"Yes", "No"}

\* whether accept asks the large-count question on these widgets
asks_large_count(w) ==
    /\ w.enabled_cb
    /\ w.range_radio
    /\ w.min_spin < w.max_spin
    /\ w.step_spin > 0
    /\ ((w.max_spin - w.min_spin) \div w.step_spin) + 1 > LARGE_COUNT

\* what edit_variable holds of the dialog until dlg.exec() has returned:
\* the last button pressed, the widgets it read and the answer given
DialogResult(name, result, why, w, reply) ==
    Some([name |-> name, result |-> result, why |-> why, w |-> w, reply |-> reply])

\* MainWindow.edit_variable: opens the dialog on the parameter's field
EditVariable(name) ==
    /\ pc = "idle"
    /\ dlg = None
    /\ dlg_result = None
    /\ name \in DOMAIN variables
    /\ dlg' = Some(name)
    /\ UNCHANGED <<base_params, variables, op, arg, ret, manifest_vars,
                   dlg_result, output_dir, warn_spin, pc, batch, loop_i,
                   created, canceled, message, fs>>

\* the OK button
DialogAccept ==
    /\ dlg # None
    /\ \E w \in WidgetStates :
       \E reply \in IF asks_large_count(w) THEN Replies ELSE {"Yes"} :
          LET r == accept(variables[dlg[1]], w, reply)
          IN  /\ variables' = [variables EXCEPT ![dlg[1]] = r.variable]
              /\ dlg_result' = DialogResult(dlg[1], r.result, r.why, Some(w),
                                             IF asks_large_count(w) THEN Some(reply) ELSE None)
              /\ dlg' = IF r.result = "accepted" THEN None ELSE dlg
    /\ UNCHANGED <<base_params, op, arg, ret, manifest_vars,
                   output_dir, warn_spin, pc, batch, loop_i, created,
                   canceled, message, fs>>

\* the Cancel button (QDialog.reject)
DialogReject ==
    /\ dlg # None
    /\ dlg' = None
    /\ dlg_result' = DialogResult(dlg[1], "cancelled", "cancel", None, None)
    /\ UNCHANGED <<base_params, variables, op, arg, ret, manifest_vars,
                   output_dir, warn_spin, pc, batch, loop_i, created,
                   canceled, message, fs>>

\* dlg.exec() returns into edit_variable, which refreshes the badge and
\* drops the dialog
EditVariableReturn ==
    /\ dlg = None
    /\ dlg_result # None
    /\ dlg_result' = None
    /\ UNCHANGED <<base_params, variables, op, arg, ret, manifest_vars,
                   dlg, output_dir, warn_spin, pc, batch, loop_i, created,
                   canceled, message, fs>>

(***************************************************************************)
(* MainWindow.generate_clicked                                             *)
(*                                                                         *)
(* The handler runs on the GUI thread; the only other activity during a    *)
(* run is the user pressing Cancel on the progress dialog, which the       *)
(* handler sees at its next progress.setValue.  One run is followed per    *)
(* behaviour: a click that returns before the loop leaves the window idle, *)
(* a run that reached the loop ends in "finished".                         *)
(***************************************************************************)
\* the least width of the index in a case name
MIN_WIDTH == 3

\* prefix_edit's text
Prefix == "case"

\* the last message box shown; reported is the number of cases it names
Message(kind, title, reported) ==
    Some([kind |-> kind, title |-> title, reported |-> reported])

\* str(n) as its decimal digits
RECURSIVE digits(_)
digits(n) == IF n < 10 THEN <<n>> ELSE Append(digits(n \div 10), n % 10)

\* the format specification 0{width}d
RECURSIVE zero_pad(_, _)
zero_pad(d, w) == IF Len(d) >= w THEN d ELSE zero_pad(<<0>> \o d, w)

max(a, b) == IF a >= b THEN a ELSE b

width(b) == max(MIN_WIDTH, Len(digits(Len(b))))

case_name(prefix, index, w) == <<prefix, zero_pad(digits(index), w)>>

\* a case directory: the copied template tree, input.k and config.toml;
\* old marks a directory left by an earlier run
CaseDir(old, assets, input_k, config_toml) ==
    [old |-> old, assets |-> assets, input_k |-> input_k, config_toml |-> config_toml]

OldCaseDir == CaseDir(TRUE, TRUE, Some(<<>>), Some(<<>>))

ensure_dir(tree, name) ==
    IF name \in DOMAIN tree.cases THEN tree
    ELSE [tree EXCEPT !.cases =
             [c \in DOMAIN tree.cases \cup {name} |->
                 IF c = name THEN CaseDir(FALSE, FALSE, None, None) ELSE tree.cases[c]]]

backup_if_exists(tree, name) ==
    IF name \notin DOMAIN tree.cases THEN tree
    ELSE [tree EXCEPT !.backups = @ \cup {name},
                      !.cases = [c \in DOMAIN tree.cases \ {name} |-> tree.cases[c]]]

copy_template_tree(tree, name) == [ensure_dir(tree, name) EXCEPT !.cases[name].assets = TRUE]

render_template_to_file(tree, name, params) ==
    [tree EXCEPT !.cases[name].input_k = Some(params)]

\* {k: v.to_config_dict() for k, v in self.variables.items()}, in the order
\* of the parameter names
variables_section_of(names, vs) ==
    [j \in 1..Len(names) |-> <<names[j], py_cfg(to_config_dict(vs[names[j]]))>>]

\* the validation loop: the first enabled variable that generates no values
validate(names, vs) ==
    LET bad == {j \in 1..Len(names) :
                   /\ vs[names[j]].enabled
                   /\ generate_values(vs[names[j]]) = <<>>}
    IN  IF bad = {} THEN None
        ELSE Some(names[CHOOSE j \in bad : \A k \in bad : j <= k])

run_vars == <<pc, batch, loop_i, created, canceled, message, fs>>

\* a handler that makes the output directory before it validates
ValidationError_after_ensure_dir ==
    /\ message' = Message("warning", "Validation Error", None)
    /\ fs' = [fs EXCEPT !.out_root = TRUE]
    /\ UNCHANGED <<pc, batch, loop_i, created, canceled>>

\* QMessageBox.warning(self, "Validation Error", ...) and return
ValidationError ==
    /\ message' = Message("warning", "Validation Error", None)
    /\ UNCHANGED <<pc, batch, loop_i, created, canceled, fs>>

\* the handler up to the creation of the output directory
GenerateClicked ==
    /\ pc = "idle"
    /\ dlg = None
    /\ dlg_result = None
    /\ output_dir # None
    /\ LET names == keys(base_params)
           invalid == validate(names, variables)
           total == estimate_batch_size(base_params, variables)
       IN  IF invalid # None
           THEN ValidationError
           ELSE IF total <= 0
           THEN ValidationError
           ELSE \E reply \in Replies :
                   IF total > warn_spin /\ reply # "Yes"
                   THEN /\ message' = Message("question", "Large Batch Warning", Some(total))
                        /\ UNCHANGED <<pc, batch, loop_i, created, canceled, fs>>
                   ELSE /\ batch' = generate_batch(base_params, variables)
                        /\ message' = IF total > warn_spin
                                      THEN Message("question", "Large Batch Warning", Some(total))
                                      ELSE message
                        /\ fs' = [fs EXCEPT !.out_root = TRUE]
                        /\ created' = <<>>
                        /\ canceled' = FALSE
                        /\ loop_i' = 1
                        /\ pc' = "loop"
    /\ UNCHANGED <<base_params, variables, op, arg, ret, manifest_vars,
                   dlg, dlg_result, output_dir, warn_spin>>

\* the user presses Cancel; the press is delivered inside progress.setValue
Cancel ==
    /\ pc \in {"loop", "finally"}
    /\ ~canceled
    /\ canceled' = TRUE
    /\ UNCHANGED <<base_params, variables, op, arg, ret, manifest_vars,
                   dlg, dlg_result, output_dir, warn_spin,
                   pc, batch, loop_i, created, message, fs>>

\* a loop head that never looks at the Cancel button
LoopTop_no_cancel ==
    /\ pc = "loop"
    /\ pc' = IF loop_i > Len(batch) THEN "finally" ELSE "backup"
    /\ UNCHANGED <<base_params, variables, op, arg, ret, manifest_vars,
                   dlg, dlg_result, output_dir, warn_spin,
                   batch, loop_i, created, canceled, message, fs>>

\* the head of the loop: the next item, progress.setValue(i - 1) and the
\* wasCanceled test
LoopTop ==
    /\ pc = "loop"
    /\ pc' = IF loop_i > Len(batch) \/ canceled THEN "finally" ELSE "backup"
    /\ UNCHANGED <<base_params, variables, op, arg, ret, manifest_vars,
                   dlg, dlg_result, output_dir, warn_spin,
                   batch, loop_i, created, canceled, message, fs>>

\* the case directory of the item in hand
case_dir == case_name(Prefix, batch[loop_i].index, width(batch))

\* the except branch: progress.close() and the critical box, then return
Raised ==
    /\ message' = Message("critical", "Error", None)
    /\ pc' = "finished"

\* backup_if_exists(case_dir); ensure_dir(case_dir)
Backup ==
    /\ pc = "backup"
    /\ \/ /\ fs' = ensure_dir(backup_if_exists(fs, case_dir), case_dir)
          /\ pc' = "copy"
          /\ UNCHANGED message
       \/ /\ Raised
          /\ UNCHANGED fs
    /\ UNCHANGED <<base_params, variables, op, arg, ret, manifest_vars,
                   dlg, dlg_result, output_dir, warn_spin,
                   batch, loop_i, created, canceled>>

\* copy_template_tree(self.template_dir, case_dir)
Copy ==
    /\ pc = "copy"
    /\ \/ /\ fs' = copy_template_tree(fs, case_dir)
          /\ pc' = "render"
          /\ UNCHANGED message
       \/ /\ Raised
          /\ UNCHANGED fs
    /\ UNCHANGED <<base_params, variables, op, arg, ret, manifest_vars,
                   dlg, dlg_result, output_dir, warn_spin,
                   batch, loop_i, created, canceled>>

\* render_template_to_file(..., params=item.params, output_file=input.k)
Render ==
    /\ pc = "render"
    /\ \/ /\ fs' = render_template_to_file(fs, case_dir, batch[loop_i].params)
          /\ pc' = "config"
          /\ UNCHANGED message
       \/ /\ Raised
          /\ UNCHANGED fs
    /\ UNCHANGED <<base_params, variables, op, arg, ret, manifest_vars,
                   dlg, dlg_result, output_dir, warn_spin,
                   batch, loop_i, created, canceled>>

\* write_case_config_toml(config.toml, ...), created.append, setLabelText
Config ==
    /\ pc = "config"
    /\ \/ /\ fs' = [fs EXCEPT !.cases[case_dir].config_toml =
                       Some(write_case_config_toml(
                               batch[loop_i].params,
                               variables_section_of(keys(base_params), variables),
                               TemplateFile))]
          /\ created' = Append(created, case_dir)
          /\ loop_i' = loop_i + 1
          /\ pc' = "loop"
          /\ UNCHANGED message
       \/ /\ Raised
          /\ UNCHANGED <<fs, created, loop_i>>
    /\ UNCHANGED <<base_params, variables, op, arg, ret, manifest_vars,
                   dlg, dlg_result, output_dir, warn_spin, batch, canceled>>

\* finally: progress.setValue(len(batch)), then the closing message.  With
\* autoReset (the QProgressDialog default) reaching the maximum resets the
\* dialog, which clears wasCanceled; both readings of the flag are kept.
Finally ==
    /\ pc = "finally"
    /\ \E wasCanceled \in {canceled, FALSE} :
          message' = IF wasCanceled
                     THEN Message("information", "Canceled", Some(Len(created)))
                     ELSE Message("information", "Done", Some(Len(created)))
    /\ pc' = "finished"
    /\ UNCHANGED <<base_params, variables, op, arg, ret, manifest_vars,
                   dlg, dlg_result, output_dir, warn_spin,
                   batch, loop_i, created, canceled, fs>>

NextRun ==
    \/ GenerateClicked
    \/ Cancel
    \/ LoopTop
    \/ Backup
    \/ Copy
    \/ Render
    \/ Config
    \/ Finally

(***************************************************************************)
(* The window after a template with the parameters x and y was loaded and  *)
(* an output directory chosen                                              *)
(***************************************************************************)
UIBaseParams == << <<"x", 700>>, <<"y", 900>> >>

\* VariableField(): the step 1.0 is never stepped while the field is
\* disabled and is held as ROUND_UNIT
DefaultField == VariableField(FALSE, "range", None, None, ROUND_UNIT, <<>>)

WarnValues == {2, 50}

\* what an earlier run left under the output directory
TreeSet ==
    { EmptyTree,
      [out_root |-> TRUE,
       cases |-> [c \in {case_name(Prefix, 2, MIN_WIDTH)} |-> OldCaseDir],
       backups |-> {}] }

InitWindow ==
    /\ base_params = UIBaseParams
    /\ op = "none"
    /\ arg = None
    /\ ret = None
    /\ NoManifest
    /\ WindowIdle
    /\ output_dir = Some("out")
    /\ fs \in TreeSet

\* warn_spin keeps the value the window gives it
InitUI ==
    /\ InitWindow
    /\ warn_spin = 50
    /\ variables = [n \in KeySet(UIBaseParams) |-> DefaultField]

NextUI ==
    \/ \E name \in KeySet(UIBaseParams) : EditVariable(name)
    \/ DialogAccept
    \/ DialogReject
    \/ EditVariableReturn
    \/ NextRun

SpecUI == InitUI /\ [][NextUI]_vars

(***************************************************************************)
(* generate_clicked on a window whose fields were put together by other    *)
(* code than the dialog                                                    *)
(***************************************************************************)
RunFields ==
    { DefaultField,
      VariableField(TRUE, "range", Some(0), Some(10000), 10000, <<>>),
      VariableField(TRUE, "range", None, Some(10000), 10000, <<>>),
      VariableField(TRUE, "range", Some(0), Some(10000), 0, <<>>),
      VariableField(TRUE, "discrete", None, None, ROUND_UNIT, <<>>),
      VariableField(TRUE, "discrete", None, None, ROUND_UNIT, <<0, 100>>) }

InitRun ==
    /\ InitWindow
    /\ warn_spin \in WarnValues
    /\ variables \in [KeySet(UIBaseParams) -> RunFields]

SpecRun == InitRun /\ [][NextRun]_vars

(***************************************************************************)
(* Claims about the main window and the dialog                             *)
(***************************************************************************)
\* the configurations generate_clicked refuses
InvalidConfiguration ==
    \/ \E n \in DOMAIN variables :
          variables[n].enabled /\ generate_values(variables[n]) = <<>>
    \/ estimate_batch_size(base_params, variables) = 0

Processing == {"backup", "copy", "render", "config"}

\* C12: when some enabled variable generates no values, or the estimated
\* batch size is 0, a click on Generate ends in the "Validation Error"
\* warning and changes nothing else: the tree under the output directory
\* (output directory, backups, copied templates, input.k, config.toml) is
\* what it was, no batch is planned and no run is started.
C12_RejectedBeforeSideEffects ==
    [][(pc = "idle" /\ InvalidConfiguration /\ run_vars' # run_vars)
          => /\ message' = Message("warning", "Validation Error", None)
             /\ fs' = fs
             /\ pc' = "idle"
             /\ batch' = batch
             /\ created' = created]_vars

\* a refused click on a window whose output directory does not exist yet
C12_Witness ==
    /\ InvalidConfiguration
    /\ pc = "idle"
    /\ message = Message("warning", "Validation Error", None)
    /\ ~fs.out_root
    /\ batch = <<>>
    /\ created = <<>>

\* C13: when a step raised after at least one case was completed, the
\* message shown to the user reports the completed cases.
C13_PartialReported ==
    (pc = "finished" /\ message # None /\ message[1].kind = "critical" /\ created # <<>>)
        => message[1].reported = Some(Len(created))

\* a range the dialog accepts
ValidRangeField(f) ==
    /\ f.mode = "range"
    /\ HasBounds(f)
    /\ f.min_value[1] < f.max_value[1]
    /\ f.step > 0

\* a list the dialog accepts
ValidDiscreteField(f) ==
    /\ f.mode = "discrete"
    /\ Len(f.values) >= 2
    /\ NoDuplicates(f.values)

\* C14: whatever was accepted, rejected or cancelled in the dialogs so far,
\* every enabled field is a range with min < max and step > 0 or a list of
\* at least two pairwise-distinct values, generates at least one value, and
\* the estimated batch size is at least 1.
C14_EnabledFieldsGenerate ==
    /\ \A n \in DOMAIN variables :
          variables[n].enabled =>
             /\ ValidRangeField(variables[n]) \/ ValidDiscreteField(variables[n])
             /\ Len(generate_values(variables[n])) >= 1
    /\ estimate_batch_size(base_params, variables) >= 1

\* both kinds of enabled field at once, with a rejected accept just behind
C14_Witness ==
    /\ \E n \in DOMAIN variables : variables[n].enabled /\ variables[n].mode = "range"
    /\ \E n \in DOMAIN variables : variables[n].enabled /\ variables[n].mode = "discrete"
    /\ dlg_result # None
    /\ dlg_result[1].result = "rejected"

ListValues(w) == [j \in 1..Len(w.values_list) |-> float_of_text(w.values_list[j])]

\* the widget states the claim names as rejected
RejectedAsClaimed(w, reply) ==
    /\ w.enabled_cb
    /\ \/ w.range_radio /\ w.min_spin >= w.max_spin
       \/ asks_large_count(w) /\ reply = Some("No")
       \/ ~w.range_radio /\ Len(ListValues(w)) < 2
       \/ ~w.range_radio /\ ~NoDuplicates(ListValues(w))

\* C15: an OK press on widgets that hold a range with min >= max, a list
\* of fewer than two values or with duplicates, or a large range whose
\* confirmation is declined, leaves every field as it was and the dialog
\* open; an OK press with the enable box unchecked changes nothing but the
\* enabled flag of the edited field, which becomes false.
C15_RejectedAcceptKeepsField ==
    [][(/\ dlg # None
        /\ dlg_result' # dlg_result
        /\ dlg_result' # None
        /\ dlg_result'[1].result # "cancelled")
          => LET r == dlg_result'[1]
                 w == r.w[1]
             IN  /\ RejectedAsClaimed(w, r.reply)
                       => variables' = variables /\ dlg' = dlg
                 /\ ~w.enabled_cb
                       => variables' = [variables EXCEPT ![dlg[1]].enabled = FALSE]]_vars

\* a declined confirmation on a field that an earlier accept had made a
\* list, and an unchecked accept on a field that had been enabled
C15_Witness ==
    /\ dlg_result # None
    /\ \/ /\ dlg_result[1].why = "declined"
          /\ variables[dlg_result[1].name].enabled
          /\ variables[dlg_result[1].name].mode = "discrete"
       \/ /\ dlg_result[1].why = "unchecked"
          /\ variables[dlg_result[1].name].mode = "discrete"
          /\ variables[dlg_result[1].name].values # <<>>

\* the case directory of the j-th item of the batch
ItemName(j) == case_name(Prefix, batch[j].index, width(batch))

\* the case directories this run has completed: input.k and config.toml
\* both written
Completed(tree) ==
    {c \in DOMAIN tree.cases :
        /\ ~tree.cases[c].old
        /\ tree.cases[c].input_k # None
        /\ tree.cases[c].config_toml # None}

C16_Prefix ==
    LET k == Len(created)
        N == Len(batch)
    IN  /\ k <= N
        /\ \A a, b \in 1..N : a # b => ItemName(a) # ItemName(b)
        /\ \A j \in 1..N : batch[j].index = j
        /\ created = [j \in 1..k |-> ItemName(j)]
        /\ Completed(fs) = {ItemName(j) : j \in 1..k}
        /\ \A j \in 1..k : fs.cases[ItemName(j)].input_k = Some(batch[j].params)
        /\ pc \in Processing => loop_i = k + 1 /\ loop_i <= N
        /\ (pc = "finished" /\ message # None /\ message[1].kind = "information")
              => message[1].reported = Some(k)

C16_InOrder ==
    /\ loop_i' \in {loop_i, loop_i + 1}
    /\ (pc = "loop" /\ canceled) => pc' \notin Processing
    /\ pc \in {"finally", "finished"}
          => fs' = fs /\ created' = created /\ pc' \notin Processing

\* C16: the items are taken in increasing index order under pairwise
\* distinct directory names; at every point of a run the completed cases
\* are exactly the items 1..k for k = len(created) <= N, each input.k
\* rendered from its item's parameters; once Cancel is seen or a step has
\* raised no further item is processed; and the count in the closing
\* "Canceled" or "Done" message is k.
C16_CompletedPrefix == []C16_Prefix /\ [][C16_InOrder]_vars

\* a run cancelled after two cases and before the last
C16_Witness ==
    /\ pc = "finished"
    /\ canceled
    /\ Len(created) >= 2
    /\ Len(created) < Len(batch)
    /\ message # None
    /\ message[1].reported = Some(Len(created))

====
